---- MODULE Spec2Model ----
(***************************************************************************)
(* A model of the LPL-SNN network core: Net (model/src/network.py) driving  *)
(* an ordered sequence of Layer objects (model/src/model.py).               *)
(*                                                                         *)
(* Real numbers are fixed-point integers with unit Q (1.0 is Q).  Arrays    *)
(* are functions: a (batch, size) tensor is [1..batch -> [1..size -> Int]], *)
(* a weight matrix (size, prev_size) is [1..size -> [1..prev_size -> Int]]. *)
(* Layers are numbered from 0 as in the code.                               *)
(***************************************************************************)
EXTENDS Integers, Sequences, FiniteSets, TLC

(***************************************************************************)
(* Bounds of the model.                                                     *)
(***************************************************************************)
\* total number of timesteps a behaviour processes
MaxSteps == 3
\* timesteps in one mini-batch (batch.shape[0])
MaxTimesteps == 2
\* mini-batches the loader supplies per epoch
MaxBatches == 2
\* settings.epochs
MaxEpochs == 2
\* num_timesteps given to SequentialDataset (THIS_TEST_NUM_DATAPOINTS)
NumDatapoints == 2

(***************************************************************************)
(* Fixed-point arithmetic.                                                  *)
(***************************************************************************)
Q == 10 * 100

Abs(x) == IF x < 0 THEN -x ELSE x

Mul(a, b) == (a * b) \div Q

Div(a, b) == (a * Q) \div b

(***************************************************************************)
(* Program constants (model.py).                                            *)
(***************************************************************************)
THETA_REST == 0
\* 1e-3 in units of 1/Q
XI == 1
\* DELTA is 1e-5: DELTA_INV is 1/DELTA
DELTA_INV == 100000
MAX_RETAINED_MEMS == 2
\* the last two spikes kept by SpikeMovingAverage
MAX_RETAINED_SPIKES == 2
\* no layer: the None of an Optional[Layer]
NoLayer == -1

LAMBDA_HEBBIAN == Q
\* BETA = 1
BETA == Q
\* DATA_MEM_ASSUMPTION = 0.5
DATA_MEM_ASSUMPTION == Q \div 2
\* firing threshold of the LIF cell, 1.0
THRESHOLD == Q

(***************************************************************************)
(* Inputs: the settings a network is built from.                            *)
(***************************************************************************)
LayerSizeChoices ==
    {<<1>>, <<2>>, <<1, 2>>, <<2, 1>>, <<1, 1, 1>>, <<2, 1, 2>>}

DataSizeChoices == {1, 2}

PercentageInhibitoryChoices == {30, 60}

\* layer_sparsity in percent
LayerSparsityChoices == {50}

\* learning_rate 1.0, decay_beta 0.9, batch_size 2; the time constants are
\* in timesteps
SettingsChoices ==
  LET all ==
    [layer_sizes : LayerSizeChoices,
     data_size : DataSizeChoices,
     batch_size : {2},
     learning_rate : {Q},
     epochs : {1, MaxEpochs},
     encode_spike_trains : BOOLEAN,
     percentage_inhibitory : PercentageInhibitoryChoices,
     layer_sparsity : LayerSparsityChoices,
     decay_beta : {(9 * Q) \div 10},
     tau_mean : {2},
     tau_var : {2},
     tau_rise_alpha : {1},
     tau_fall_alpha : {2},
     tau_rise_epsilon : {1},
     tau_fall_epsilon : {2}]
  IN  \* the input is as wide as the first layer is not; around the
      \* configurations of one epoch, the lower percentage_inhibitory and no
      \* encoding, one of the three is varied
      {s \in all :
          /\ s.data_size /= s.layer_sizes[1]
          /\ \/ s.epochs = 1 /\ s.percentage_inhibitory = 30
             \/ s.epochs = 1 /\ ~s.encode_spike_trains
             \/ s.percentage_inhibitory = 30 /\ ~s.encode_spike_trains}

\* the seeds given to torch.manual_seed
Seeds == {0, 1}

(***************************************************************************)
(* Array helpers.                                                           *)
(***************************************************************************)
\* torch.zeros(batch, size)
Zeros2(batch, size) == [b \in 1..batch |-> [j \in 1..size |-> 0]]

\* torch.zeros(batch, size, prev)
Zeros3(batch, size, prev) ==
    [b \in 1..batch |-> [j \in 1..size |-> [i \in 1..prev |-> 0]]]

Last(s) == s[Len(s)]

\* collections.deque(maxlen).append: the oldest entry leaves when full
DequeAppend(d, x, maxlen) ==
    IF Len(d) >= maxlen THEN Tail(d) \o <<x>> ELSE Append(d, x)

\* Python's round() of num/den, num >= 0, den > 0: to nearest, ties to even
Round(num, den) ==
    LET q == num \div den
        r == num % den
    IN  IF 2 * r < den THEN q
        ELSE IF 2 * r > den THEN q + 1
        ELSE IF q % 2 = 0 THEN q ELSE q + 1

\* the value the seeded generator (torch.manual_seed) gives at one position
Draw(seed, layer, j, i) == (seed * 3 + layer * 5 + j * 7 + i * 11) % 10

(***************************************************************************)
(* Net.__init__: settings of each layer.                                    *)
(***************************************************************************)
NumLayers(settings) == Len(settings.layer_sizes)

\* mutant: the layer's own size is taken for its prev_size
PrevSize_Own(settings, i) ==
    IF i = 0 THEN settings.data_size ELSE settings.layer_sizes[i + 1]

PrevSize(settings, i) ==
    IF i = 0 THEN settings.data_size ELSE settings.layer_sizes[i]

NextSize(settings, i) ==
    IF i < Len(settings.layer_sizes) - 1 THEN settings.layer_sizes[i + 2] ELSE 0

\* layer i (0-based) of layer_sizes is element i + 1 of the sequence
LayerSettings(settings, i) ==
    [layer_id |-> i,
     prev_size |-> PrevSize(settings, i),
     size |-> settings.layer_sizes[i + 1],
     next_size |-> NextSize(settings, i),
     batch_size |-> settings.batch_size,
     learning_rate |-> settings.learning_rate,
     data_size |-> settings.data_size,
     percentage_inhibitory |-> settings.percentage_inhibitory,
     layer_sparsity |-> settings.layer_sparsity,
     decay_beta |-> settings.decay_beta,
     tau_mean |-> settings.tau_mean,
     tau_var |-> settings.tau_var,
     tau_rise_alpha |-> settings.tau_rise_alpha,
     tau_fall_alpha |-> settings.tau_fall_alpha,
     tau_rise_epsilon |-> settings.tau_rise_epsilon,
     tau_fall_epsilon |-> settings.tau_fall_epsilon]

(***************************************************************************)
(* Layer.__init__.                                                          *)
(***************************************************************************)
\* nn.Linear's seeded initial weight of (output j, input i)
InitWeight(seed, ls, j, i) == 200 * Draw(seed, ls.layer_id, j, i) - 400

\* nn.Linear's seeded initial bias of output j
InitBias(seed, ls, j) == 100 * Draw(seed, ls.layer_id, j, 0) - 500

\* mutant: the count is cut to an integer, not rounded
NumInhibitory_Truncated(ls) == (ls.percentage_inhibitory * ls.size) \div 100

\* number of inhibitory units of a layer
NumInhibitory(ls) == Round(ls.percentage_inhibitory * ls.size, 100)

\* TRUE for an excitatory unit; the inhibitory units are drawn without
\* replacement: NumInhibitory(ls) consecutive units from a seeded offset
ExcitatoryMaskVec(seed, ls) ==
    LET off == Draw(seed, ls.layer_id, 0, 0) % ls.size
    IN  [j \in 1..ls.size |->
            ~(((j - 1 - off) % ls.size) < NumInhibitory(ls))]

\* a TemporalFilter before its first call
NewFilter(zero) == [rise |-> zero, fall |-> zero]

\* mutant: the membrane history is pre-filled with one array only
InitMemRec_OneEntry(ls) == <<Zeros2(ls.batch_size, ls.size)>>

\* mem_rec = Deque(maxlen=MAX_RETAINED_MEMS), then two appends of
\* torch.zeros(batch_size, size)
InitMemRec(ls) ==
    DequeAppend(DequeAppend(<<>>, Zeros2(ls.batch_size, ls.size), MAX_RETAINED_MEMS),
                Zeros2(ls.batch_size, ls.size), MAX_RETAINED_MEMS)

\* Layer.__init__
Layer(ls, seed) ==
    [layer_settings |-> ls,
     forward_weights |->
        [j \in 1..ls.size |-> [i \in 1..ls.prev_size |-> InitWeight(seed, ls, j, i)]],
     forward_bias |-> [j \in 1..ls.size |-> InitBias(seed, ls, j)],
     sparsity_mask |-> [j \in 1..ls.size |-> [i \in 1..ls.prev_size |-> TRUE]],
     excitatory_mask_vec |-> ExcitatoryMaskVec(seed, ls),
     spike_rec |-> <<Zeros2(ls.batch_size, ls.size), Zeros2(ls.batch_size, ls.size)>>,
     spike_moving_average |-> Zeros2(ls.batch_size, ls.size),
     lif_variance_moving_average |-> Zeros2(ls.batch_size, ls.size),
     mem_rec |-> InitMemRec(ls),
     prev_layer |-> NoLayer,
     next_layer |-> NoLayer,
     mem |-> Zeros2(ls.batch_size, ls.size),
     alpha_filter_first_term |->
        NewFilter(Zeros3(ls.batch_size, ls.size, ls.prev_size)),
     epsilon_filter_second_term |->
        NewFilter(Zeros3(ls.batch_size, ls.size, ls.prev_size)),
     alpha_filter_second_term |-> NewFilter(Zeros2(ls.batch_size, ls.prev_size)),
     data_spike_rec |->
        <<Zeros2(ls.batch_size, ls.data_size), Zeros2(ls.batch_size, ls.data_size)>>,
     data_spike_moving_average |-> Zeros2(ls.batch_size, ls.data_size),
     variance_moving_average |-> Zeros2(ls.batch_size, ls.data_size)]

\* mutant: the previous layer is stored as the next layer
set_prev_layer_AsNext(layer, prev) == [layer EXCEPT !.next_layer = prev]

set_prev_layer(layer, prev) == [layer EXCEPT !.prev_layer = prev]

set_next_layer(layer, next) == [layer EXCEPT !.next_layer = next]

\* the sparsity mask of (output j, input i): kept with probability
\* 1 - layer_sparsity, drawn from the seeded generator
SparsityMaskEntry(seed, ls, j, i) ==
    10 * Draw(seed + 1, ls.layer_id, i, j) >= ls.layer_sparsity

\* weights outside the mask are forced to zero
MaskWeights(weights, mask) ==
    [j \in DOMAIN weights |->
        [i \in DOMAIN weights[j] |-> IF mask[j][i] THEN weights[j][i] ELSE 0]]

set_sparsity_masks(layer, seed) ==
    LET ls == layer.layer_settings
        mask == [j \in 1..ls.size |->
                    [i \in 1..ls.prev_size |-> SparsityMaskEntry(seed, ls, j, i)]]
    IN  [layer EXCEPT !.sparsity_mask = mask,
                      !.forward_weights = MaskWeights(layer.forward_weights, mask)]

(***************************************************************************)
(* Net.__init__: make the settings, make the layers, connect them, set the  *)
(* masks.                                                                   *)
(***************************************************************************)
ConnectLayer(made, i, n) ==
    LET withPrev == IF i > 0 THEN set_prev_layer(made[i], i - 1) ELSE made[i]
    IN  IF i < n - 1 THEN set_next_layer(withPrev, i + 1) ELSE withPrev

NetInit(settings, seed) ==
    LET n == NumLayers(settings)
        network_layer_settings == [i \in 0..(n - 1) |-> LayerSettings(settings, i)]
        made == [i \in 0..(n - 1) |-> Layer(network_layer_settings[i], seed)]
        connected == [i \in 0..(n - 1) |-> ConnectLayer(made, i, n)]
    IN  [i \in 0..(n - 1) |-> set_sparsity_masks(connected[i], seed)]

(***************************************************************************)
(* Trackers and filters (model.src.util).                                   *)
(***************************************************************************)
\* MovingAverageTracker.apply on one value: avg + (x - avg) / tau_mean
MovingAverageApply(avg, x, tau_mean) == avg + (x - avg) \div tau_mean

\* VarianceMovingAverage.apply on one value: the squared deviation of x from
\* the moving average, averaged with time constant tau_var
VarianceApply(var, x, avg, tau_var) ==
    var + (Mul(x - avg, x - avg) - var) \div tau_var

\* TemporalFilter.apply on one value: two cascaded first-order low-pass
\* stages; the result is the second stage
FilterApply(f, x, tau_rise, tau_fall) ==
    LET rise == f.rise + (x - f.rise) \div tau_rise
        fall == f.fall + (rise - f.fall) \div tau_fall
    IN  [rise |-> rise, fall |-> fall]

\* TemporalFilter.apply on a (batch, size) array
FilterApply2(f, x, tau_rise, tau_fall) ==
    LET one(b, i) == FilterApply([rise |-> f.rise[b][i], fall |-> f.fall[b][i]],
                                 x[b][i], tau_rise, tau_fall)
    IN  [rise |-> [b \in DOMAIN x |-> [i \in DOMAIN x[b] |-> one(b, i).rise]],
         fall |-> [b \in DOMAIN x |-> [i \in DOMAIN x[b] |-> one(b, i).fall]]]

\* TemporalFilter.apply on a (batch, size, prev) array
FilterApply3(f, x, tau_rise, tau_fall) ==
    LET one(b, j, i) ==
            FilterApply([rise |-> f.rise[b][j][i], fall |-> f.fall[b][j][i]],
                        x[b][j][i], tau_rise, tau_fall)
    IN  [rise |-> [b \in DOMAIN x |-> [j \in DOMAIN x[b] |->
                      [i \in DOMAIN x[b][j] |-> one(b, j, i).rise]]],
         fall |-> [b \in DOMAIN x |-> [j \in DOMAIN x[b] |->
                      [i \in DOMAIN x[b][j] |-> one(b, j, i).fall]]]]

(***************************************************************************)
(* Layer.forward.                                                           *)
(***************************************************************************)
\* forward(None)
NoData == <<>>

RECURSIVE Dot(_, _, _)
\* sum over inputs 1..n of w[i] * x[i]
Dot(w, x, n) == IF n = 0 THEN 0 ELSE Dot(w, x, n - 1) + w[n] * x[n]

\* nn.Linear: x (batch, prev) to (batch, size)
Linear(weights, bias, x) ==
    [b \in DOMAIN x |->
        [j \in DOMAIN weights |->
            (Dot(weights[j], x[b], Len(weights[j])) \div Q) + bias[j]]]

\* the LIF cell's membrane after one step: decay, input, and a reset by
\* subtraction when the membrane was above threshold
LifMem(beta, current, mem) ==
    [b \in DOMAIN mem |->
        [j \in DOMAIN mem[b] |->
            Mul(beta, mem[b][j]) + current[b][j]
                - (IF mem[b][j] > THRESHOLD THEN THRESHOLD ELSE 0)]]

\* a spike (1.0) where the membrane exceeds the threshold
LifSpike(mem) ==
    [b \in DOMAIN mem |->
        [j \in DOMAIN mem[b] |-> IF mem[b][j] > THRESHOLD THEN Q ELSE 0]]

\* mutant: the previous layer's spike of one timestep before is read
ForwardInput_Stale(layers, k, data) ==
    IF data = NoData
    THEN layers[layers[k].prev_layer].spike_rec[
             Len(layers[layers[k].prev_layer].spike_rec) - 1]
    ELSE data

\* the input forward reads: the data, or the previous layer's latest spike
ForwardInput(layers, k, data) ==
    IF data = NoData
    THEN Last(layers[layers[k].prev_layer].spike_rec)
    ELSE data

\* mutant: the history has no maximal length
MemRecAppend_Unbounded(mem_rec, mem) == Append(mem_rec, mem)

\* the layer's mem_rec after forward appended mem
MemRecAppend(mem_rec, mem) == DequeAppend(mem_rec, mem, MAX_RETAINED_MEMS)

\* forward_lif(current, self.mem): the new membrane and spike, and the cell's
\* own record of its spikes (the last two, the moving average, the variance)
ForwardLif(layer, current) ==
    LET ls == layer.layer_settings
        mem == LifMem(ls.decay_beta, current, layer.mem)
        spk == LifSpike(mem)
        avg == [b \in DOMAIN spk |-> [j \in DOMAIN spk[b] |->
                   MovingAverageApply(layer.spike_moving_average[b][j],
                                      spk[b][j], ls.tau_mean)]]
        var == [b \in DOMAIN spk |-> [j \in DOMAIN spk[b] |->
                   VarianceApply(layer.lif_variance_moving_average[b][j],
                                 spk[b][j], avg[b][j], ls.tau_var)]]
    IN  [spk |-> spk,
         mem |-> mem,
         layer |-> [layer EXCEPT
                      !.spike_rec = DequeAppend(@, spk, MAX_RETAINED_SPIKES),
                      !.spike_moving_average = avg,
                      !.lif_variance_moving_average = var]]

\* mutant: forward makes the weights it used non-negative in place
StoreMem_AbsWeights(layer, mem) ==
    [layer EXCEPT !.mem = mem,
                  !.mem_rec = MemRecAppend(@, mem),
                  !.forward_weights =
                      [j \in DOMAIN @ |-> [c \in DOMAIN @[j] |-> Abs(@[j][c])]]]

\* self.mem = mem; self.mem_rec.append(mem)
StoreMem(layer, mem) ==
    [layer EXCEPT !.mem = mem, !.mem_rec = MemRecAppend(@, mem)]

\* Layer.forward of layer k: the layers after the call, and what it returns
Forward(layers, k, data) ==
    LET layer == layers[k]
        current == Linear(layer.forward_weights, layer.forward_bias,
                          ForwardInput(layers, k, data))
        out == ForwardLif(layer, current)
        after == StoreMem(out.layer, out.mem)
    IN  [layers |-> [layers EXCEPT ![k] = after],
         spk |-> out.spk,
         mem |-> out.mem]

(***************************************************************************)
(* Layer.train_synapses: the plasticity rule of train_forward, applied to   *)
(* the spike forward returned, then the sparsity mask.                      *)
(***************************************************************************)
\* f'(u) = beta * (1 + beta * |u - THETA_REST|) ** (-2)
FPrime(beta, u) ==
    LET d == Q + Mul(beta, Abs(u - THETA_REST))
    IN  Mul(beta, Div(Q, Mul(d, d)))

\* data_spike_moving_average.apply(data) and variance_moving_average.apply:
\* the first layer tracks the external input
ApplyDataTrackers(layer, data) ==
    LET ls == layer.layer_settings
        avg == [b \in DOMAIN data |-> [i \in DOMAIN data[b] |->
                   MovingAverageApply(layer.data_spike_moving_average[b][i],
                                      data[b][i], ls.tau_mean)]]
        var == [b \in DOMAIN data |-> [i \in DOMAIN data[b] |->
                   VarianceApply(layer.variance_moving_average[b][i],
                                 data[b][i], avg[b][i], ls.tau_var)]]
    IN  [layer EXCEPT !.data_spike_rec = DequeAppend(@, data, MAX_RETAINED_SPIKES),
                      !.data_spike_moving_average = avg,
                      !.variance_moving_average = var]

\* mutant: the rule also reads the previous layer's forward weights
PresynapticOfLayer_ReadsWeights(prev) ==
    [mem |-> [b \in DOMAIN Last(prev.mem_rec) |->
                 [c \in DOMAIN Last(prev.mem_rec)[b] |->
                     Last(prev.mem_rec)[b][c] + prev.forward_weights[c][1]]],
     most_recent_spike |-> prev.spike_rec[Len(prev.spike_rec)],
     two_spikes_ago |-> prev.spike_rec[Len(prev.spike_rec) - 1],
     spike_moving_average |-> prev.spike_moving_average,
     variance_moving_average |-> prev.lif_variance_moving_average,
     size |-> prev.layer_settings.size]

\* what the rule reads of the presynaptic side of a layer that has a
\* previous layer
PresynapticOfLayer(prev) ==
    [mem |-> Last(prev.mem_rec),
     most_recent_spike |-> prev.spike_rec[Len(prev.spike_rec)],
     two_spikes_ago |-> prev.spike_rec[Len(prev.spike_rec) - 1],
     spike_moving_average |-> prev.spike_moving_average,
     variance_moving_average |-> prev.lif_variance_moving_average,
     size |-> prev.layer_settings.size]

\* what the rule reads of the presynaptic side of the first layer
PresynapticOfData(layer) ==
    LET ls == layer.layer_settings
    IN  [mem |-> [b \in 1..ls.batch_size |->
                     [i \in 1..ls.data_size |-> DATA_MEM_ASSUMPTION]],
         most_recent_spike |-> layer.data_spike_rec[Len(layer.data_spike_rec)],
         two_spikes_ago |-> layer.data_spike_rec[Len(layer.data_spike_rec) - 1],
         spike_moving_average |-> layer.data_spike_moving_average,
         variance_moving_average |-> layer.variance_moving_average,
         size |-> ls.data_size]

\* mutant: a feedback path: the membrane the rule reads is shifted by a
\* forward weight of the next layer
Presynaptic_Feedback(layers, layer) ==
    LET pre == IF layer.prev_layer = NoLayer THEN PresynapticOfData(layer)
               ELSE PresynapticOfLayer(layers[layer.prev_layer])
        shift == IF layer.next_layer = NoLayer THEN 0
                 ELSE layers[layer.next_layer].forward_weights[1][1]
    IN  [pre EXCEPT !.mem = [b \in DOMAIN @ |-> [c \in DOMAIN @[b] |-> @[b][c] + shift]]]

\* what the rule reads of the presynaptic side: the data trackers of the
\* layer itself when it has no previous layer, else the previous layer's
Presynaptic(layers, layer) ==
    IF layer.prev_layer = NoLayer THEN PresynapticOfData(layer)
    ELSE PresynapticOfLayer(layers[layer.prev_layer])

\* most_recent_spike * f'(U_i), (batch, j, i)
FirstTermNoFilter(ls, spk, pre) ==
    [b \in 1..ls.batch_size |-> [j \in 1..ls.size |-> [i \in 1..pre.size |->
        Mul(spk[b][j], FPrime(BETA, pre.mem[b][i]))]]]

\* learning_rate * first_term_alpha * learning_rate
FirstTerm(ls, first_term_alpha) ==
    [b \in DOMAIN first_term_alpha |-> [j \in DOMAIN first_term_alpha[b] |->
        [i \in DOMAIN first_term_alpha[b][j] |->
            Mul(Mul(ls.learning_rate, first_term_alpha[b][j][i]), ls.learning_rate)]]]

\* mutant: the denominator without the additive constant
HebbianDenominator_NoXi(variance) == variance

\* the denominator of the Hebbian term
HebbianDenominator(variance) == variance + XI

\* -1 * (S_i(t) - S_i(t-1)) + LAMBDA / (var + XI) * (S_i(t) - avg), (batch, i)
SecondTermNoFilter(ls, pre) ==
    [b \in 1..ls.batch_size |-> [i \in 1..pre.size |->
        -1 * (pre.most_recent_spike[b][i] - pre.two_spikes_ago[b][i])
        + Mul(Div(LAMBDA_HEBBIAN, HebbianDenominator(pre.variance_moving_average[b][i])),
              pre.most_recent_spike[b][i] - pre.spike_moving_average[b][i])]]

\* learning_rate * DELTA * most recent spike, (batch, j)
ThirdTerm(ls, spk) ==
    [b \in 1..ls.batch_size |-> [j \in 1..ls.size |->
        Mul(ls.learning_rate \div DELTA_INV, spk[b][j])]]

RECURSIVE BatchSum(_, _, _, _, _, _)
\* sum over batch elements 1..n of first * second + third at (j, i)
BatchSum(first, second, third, j, i, n) ==
    IF n = 0 THEN 0
    ELSE BatchSum(first, second, third, j, i, n - 1)
         + Mul(first[n][j][i], second[n][i]) + third[n][j]

\* mutant: the sum over the batch is not divided by the batch size
DwDt_NotAveraged(ls, pre, first, second, third) ==
    [j \in 1..ls.size |-> [i \in 1..pre.size |->
        BatchSum(first, second, third, j, i, ls.batch_size)]]

\* dw_dt.sum(0) / dw_dt.shape[0]
DwDt(ls, pre, first, second, third) ==
    [j \in 1..ls.size |-> [i \in 1..pre.size |->
        BatchSum(first, second, third, j, i, ls.batch_size) \div ls.batch_size]]

\* forward_weights.weight += dw_dt
AddWeights(weights, dw_dt) ==
    [j \in DOMAIN weights |-> [i \in DOMAIN weights[j] |-> weights[j][i] + dw_dt[j][i]]]

\* the plasticity rule on layer k: the layer after the update
TrainForward(layers, k, spk, data) ==
    LET layer0 == layers[k]
        ls == layer0.layer_settings
        layer == IF layer0.prev_layer = NoLayer
                 THEN ApplyDataTrackers(layer0, data) ELSE layer0
        pre == Presynaptic(layers, layer)
        first_term_epsilon ==
            FilterApply3(layer.epsilon_filter_second_term,
                         FirstTermNoFilter(ls, spk, pre),
                         ls.tau_rise_epsilon, ls.tau_fall_epsilon)
        first_term_alpha ==
            FilterApply3(layer.alpha_filter_first_term, first_term_epsilon.fall,
                         ls.tau_rise_alpha, ls.tau_fall_alpha)
        second_term_alpha ==
            FilterApply2(layer.alpha_filter_second_term, SecondTermNoFilter(ls, pre),
                         ls.tau_rise_alpha, ls.tau_fall_alpha)
        dw_dt == DwDt(ls, pre, FirstTerm(ls, first_term_alpha.fall),
                      second_term_alpha.fall, ThirdTerm(ls, spk))
    IN  [layer EXCEPT !.epsilon_filter_second_term = first_term_epsilon,
                      !.alpha_filter_first_term = first_term_alpha,
                      !.alpha_filter_second_term = second_term_alpha,
                      !.forward_weights = AddWeights(@, dw_dt)]

\* mutant: the weights outside the mask are left as the rule made them
TrainSynapses_Unmasked(layers, k, spk, data) ==
    [layers EXCEPT ![k] = TrainForward(layers, k, spk, data)]

\* Layer.train_synapses(spk, data) of layer k: the update, then the weights
\* outside the sparsity mask are set to zero again
TrainSynapses(layers, k, spk, data) ==
    LET trained == TrainForward(layers, k, spk, data)
    IN  [layers EXCEPT ![k] =
            [trained EXCEPT !.forward_weights = MaskWeights(@, trained.sparsity_mask)]]

(***************************************************************************)
(* The state of a run.                                                      *)
(***************************************************************************)
VARIABLES
    settings,       \* Net.settings
    seed,           \* the seed given to torch.manual_seed before Net(settings)
    layers,         \* Net.layers: layer index -> Layer
    op,             \* the Net method running: "idle", "single", "online", "returned"
    pc,             \* where it stands: "loop", "forward", "train", "none"
    i,              \* the layer loop's index
    data,           \* the timestep's input: data, or batch[timestep]
    spk,            \* the spike the layer's forward returned
    num_batches,    \* mini-batches the loader gives per epoch
    num_timesteps,  \* batch.shape[0]
    loaded,         \* the mini-batch as the loader gave it, (timesteps, batch, data_size)
    batch,          \* batch: the mini-batch as handed to the timestep loop
    timestep,       \* the timestep loop's index
    processed,      \* timesteps process_data_online has processed
    steps,          \* timesteps begun since construction
    log,            \* history: the calls made on layers in the current timestep
    inputs,         \* history: the inputs of the timesteps begun, in order
    csv_file,       \* the training CSV on disk (TRAIN_DATA_PATH)
    train_dataframe,\* what pd.read_csv gave bench_specific_seed, or None
    dataset         \* SequentialDataset.dataframe

\* the variables of the benchmark's dataset, which no method of Net touches
benchVars == <<csv_file, train_dataframe, dataset>>

\* a table of samples, each of the same number of datapoints; not present
\* stands for a missing file, or for None
Absent == [present |-> FALSE, samples |-> 0, datapoints |-> 0]

Present(samples, datapoints) ==
    [present |-> TRUE, samples |-> samples, datapoints |-> datapoints]

vars == <<settings, seed, layers, op, pc, i, data, spk, num_batches,
          num_timesteps, loaded, batch, timestep, processed, steps, log, inputs,
          csv_file, train_dataframe, dataset>>

NoSpike == <<>>

\* inputs of one timestep: (batch, data_size) arrays of raw values
DataChoices(s) ==
    {[b \in 1..s.batch_size |-> [c \in 1..s.data_size |-> 0]],
     [b \in 1..s.batch_size |-> [c \in 1..s.data_size |->
         IF (b + c) % 2 = 0 THEN Q
         ELSE IF b = 1 THEN Q \div 2 ELSE (3 * Q) \div 10]]}

\* mutant: the threshold is not strict
EncodeSpikeTrains_AtLeast(raw) ==
    [t \in DOMAIN raw |-> [b \in DOMAIN raw[t] |-> [c \in DOMAIN raw[t][b] |->
        IF 2 * raw[t][b][c] >= Q THEN Q ELSE 0]]]

\* (batch > 0.5).float()
EncodeSpikeTrains(raw) ==
    [t \in DOMAIN raw |-> [b \in DOMAIN raw[t] |-> [c \in DOMAIN raw[t][b] |->
        IF 2 * raw[t][b][c] > Q THEN Q ELSE 0]]]

Init ==
    /\ settings \in SettingsChoices
    /\ seed \in Seeds
    /\ layers = NetInit(settings, seed)
    /\ op = "idle"
    /\ pc = "none"
    /\ i = 0
    /\ data = NoData
    /\ spk = NoSpike
    /\ num_batches = 0
    /\ num_timesteps = 0
    /\ loaded = <<>>
    /\ batch = <<>>
    /\ timestep = 0
    /\ processed = 0
    /\ steps = 0
    /\ log = <<>>
    /\ inputs = <<>>
    /\ csv_file = Absent
    /\ train_dataframe = Absent
    /\ dataset = Absent

\* Net.process_data_single_timestep(d) is called
ProcessDataSingleTimestep ==
    /\ op = "idle"
    /\ steps < MaxSteps
    /\ \E d \in DataChoices(settings) :
          /\ data' = d
          /\ inputs' = Append(inputs, d)
    /\ op' = "single"
    /\ pc' = "forward"
    /\ i' = 0
    /\ steps' = steps + 1
    /\ log' = <<>>
    /\ UNCHANGED benchVars
    /\ UNCHANGED <<settings, seed, layers, spk, num_batches, num_timesteps,
                   loaded, batch, timestep, processed>>

\* Net.process_data_online(train_loader) is called, the loader giving B
\* mini-batches of T timesteps: with no epoch or no batch the loops fall
\* through and it returns
ProcessDataOnline ==
    /\ op = "idle"
    /\ \E B \in {0, 1, MaxBatches}, T \in 1..MaxTimesteps :
          /\ T <= MaxSteps - steps
          /\ num_batches' = B
          /\ num_timesteps' = T
          /\ IF settings.epochs = 0 \/ B = 0
             THEN /\ op' = "returned" /\ pc' = "none"
                  /\ loaded' = <<>>
                  /\ batch' = <<>>
             ELSE /\ op' = "online" /\ pc' = "loop"
                  /\ \E first \in [1..T -> DataChoices(settings)] :
                        /\ loaded' = first
                        /\ batch' = IF settings.encode_spike_trains
                                    THEN EncodeSpikeTrains(first) ELSE first
    /\ timestep' = 0
    /\ processed' = 0
    /\ UNCHANGED benchVars
    /\ UNCHANGED <<settings, seed, layers, i, data, spk, steps, log, inputs>>

\* mutant: the head of the timestep loop resets every layer's membrane
TimestepLoopNext_Reset ==
    /\ op = "online"
    /\ pc = "loop"
    /\ timestep < num_timesteps
    /\ data' = batch[timestep + 1]
    /\ inputs' = Append(inputs, batch[timestep + 1])
    /\ layers' = [k \in DOMAIN layers |->
                     [layers[k] EXCEPT
                         !.mem = Zeros2(layers[k].layer_settings.batch_size,
                                        layers[k].layer_settings.size)]]
    /\ pc' = "forward"
    /\ i' = 0
    /\ steps' = steps + 1
    /\ log' = <<>>
    /\ UNCHANGED benchVars
    /\ UNCHANGED <<settings, seed, op, spk, num_batches, num_timesteps,
                   loaded, batch, timestep, processed>>

\* the head of the timestep loop of the first batch: the next timestep's
\* input is read
TimestepLoopNext ==
    /\ op = "online"
    /\ pc = "loop"
    /\ timestep < num_timesteps
    /\ data' = batch[timestep + 1]
    /\ inputs' = Append(inputs, batch[timestep + 1])
    /\ pc' = "forward"
    /\ i' = 0
    /\ steps' = steps + 1
    /\ log' = <<>>
    /\ UNCHANGED benchVars
    /\ UNCHANGED <<settings, seed, layers, op, spk, num_batches, num_timesteps,
                   loaded, batch, timestep, processed>>

\* the timestep loop of the first batch is over: return
TimestepLoopReturn ==
    /\ op = "online"
    /\ pc = "loop"
    /\ timestep >= num_timesteps
    /\ op' = "returned"
    /\ pc' = "none"
    /\ UNCHANGED benchVars
    /\ UNCHANGED <<settings, seed, layers, i, data, spk, num_batches,
                   num_timesteps, loaded, batch, timestep, processed, steps, log,
                   inputs>>

\* mutant: what layer 0 is handed depends on which method is running
ForwardArgument_ByCall(k, d) ==
    IF k = 0 THEN (IF op = "online" THEN EncodeSpikeTrains(<<d>>)[1] ELSE d) ELSE NoData

\* the data the layer loop hands to forward of layer k
ForwardArgument(k, d) == IF k = 0 THEN d ELSE NoData

\* the layer loop: spk = layer.forward(data) or layer.forward()
LayerForward ==
    /\ pc = "forward"
    /\ LET arg == ForwardArgument(i, data)
           out == Forward(layers, i, arg)
       IN  /\ layers' = out.layers
           /\ spk' = out.spk
           /\ log' = Append(log, [call |-> "forward", layer |-> i,
                                  given |-> arg /= NoData,
                                  input |-> ForwardInput(layers, i, arg),
                                  spk |-> out.spk,
                                  trained |-> layers[i].forward_weights])
    /\ pc' = "train"
    /\ UNCHANGED benchVars
    /\ UNCHANGED <<settings, seed, op, i, data, num_batches, num_timesteps,
                   loaded, batch, timestep, processed, steps, inputs>>

\* mutant: the loop skips a layer
NextLayerIndex_Skip(k) == k + 2

\* the layer the loop turns to after layer k, or the number of layers when
\* the loop is over
NextLayerIndex(k) == k + 1

\* the layer loop: layer.train_synapses(spk, data), then the next layer, or
\* the end of the timestep
LayerTrainSynapses ==
    /\ pc = "train"
    /\ layers' = TrainSynapses(layers, i, spk, data)
    /\ log' = Append(log, [call |-> "train_synapses", layer |-> i,
                           given |-> TRUE, input |-> data, spk |-> spk,
                           trained |-> TrainForward(layers, i, spk, data).forward_weights])
    /\ IF NextLayerIndex(i) < Len(settings.layer_sizes)
       THEN /\ i' = NextLayerIndex(i)
            /\ pc' = "forward"
            /\ UNCHANGED <<op, timestep, processed>>
       ELSE /\ i' = 0
            /\ IF op = "single"
               THEN op' = "idle" /\ pc' = "none" /\ UNCHANGED <<timestep, processed>>
               ELSE /\ op' = op
                    /\ pc' = "loop"
                    /\ timestep' = timestep + 1
                    /\ processed' = processed + 1
    /\ UNCHANGED benchVars
    /\ UNCHANGED <<settings, seed, data, spk, num_batches, num_timesteps, loaded,
                   batch, steps, inputs>>

Next ==
    \/ ProcessDataSingleTimestep
    \/ ProcessDataOnline
    \/ TimestepLoopNext
    \/ TimestepLoopReturn
    \/ LayerForward
    \/ LayerTrainSynapses

Spec == Init /\ [][Next]_vars

(***************************************************************************)
(* Net.process_data_single_timestep as a function of the layers and the     *)
(* input: the layer loop run from layer k to the last layer.                *)
(***************************************************************************)
RECURSIVE RunLayers(_, _, _, _)
RunLayers(lys, k, n, d) ==
    IF k >= n THEN lys
    ELSE LET out == Forward(lys, k, ForwardArgument(k, d))
         IN  RunLayers(TrainSynapses(out.layers, k, out.spk, d),
                       NextLayerIndex(k), n, d)

ProcessTimestep(lys, d) == RunLayers(lys, 0, Cardinality(DOMAIN lys), d)

(***************************************************************************)
(* Claims.                                                                  *)
(***************************************************************************)
NumberOfLayers == Len(settings.layer_sizes)

\* a timestep's layer loop is over
TimestepOver == pc \in {"none", "loop"} /\ log /= <<>>

C2_FreshSpikeRead ==
    \A m \in 1..Len(log) :
        log[m].call = "forward" =>
            /\ log[m].given <=> log[m].layer = 0
            /\ log[m].layer = 0 => log[m].input = data
            /\ log[m].layer > 0 =>
                  \E p \in 1..(m - 1) :
                      /\ log[p].call = "forward"
                      /\ log[p].layer = log[m].layer - 1
                      /\ log[m].input = log[p].spk

\* C2 witness: forward of a layer k > 0 has read a spike of layer k-1 that
\* differs from the spike layer k-1 gave one timestep before
C2_Witness ==
    \E m \in 1..Len(log) :
        /\ log[m].call = "forward"
        /\ log[m].layer > 0
        /\ LET prev == layers[log[m].layer - 1]
           IN  /\ log[m].input = prev.spike_rec[2]
               /\ prev.spike_rec[1] /= prev.spike_rec[2]

\* C3 as stated: when process_data_online returns it has processed
\* epochs * batches * timesteps timesteps.
C3_FullSchedule ==
    op = "returned" =>
        processed = settings.epochs * num_batches * num_timesteps

\* C4: layer i has layer_id i and size layer_sizes[i]; prev_size is layer
\* i-1's size, or data_size for layer 0; next_size is layer i+1's size, or 0
\* for the last layer.
C4_LayerSizes ==
    /\ DOMAIN layers = 0..(NumberOfLayers - 1)
    /\ \A k \in DOMAIN layers :
          LET ls == layers[k].layer_settings
          IN  /\ ls.layer_id = k
              /\ ls.size = settings.layer_sizes[k + 1]
              /\ ls.prev_size = IF k = 0 THEN settings.data_size
                                ELSE layers[k - 1].layer_settings.size
              /\ ls.next_size = IF k = NumberOfLayers - 1 THEN 0
                                ELSE layers[k + 1].layer_settings.size

\* C4 witness: a three-layer network whose neighbouring sizes differ
C4_Witness ==
    /\ NumberOfLayers = 3
    /\ layers[1].layer_settings.prev_size = 2
    /\ layers[1].layer_settings.size = 1
    /\ layers[1].layer_settings.next_size = 2
    /\ layers[0].layer_settings.prev_size = 1
    /\ layers[2].layer_settings.next_size = 0

WiringOk ==
    \A k \in DOMAIN layers :
        /\ layers[k].prev_layer = IF k = 0 THEN NoLayer ELSE k - 1
        /\ layers[k].next_layer = IF k = NumberOfLayers - 1 THEN NoLayer ELSE k + 1

\* C5: after construction layer i's prev_layer is layer i-1 (none for layer
\* 0) and its next_layer is layer i+1 (none for the last layer), and no step
\* of forward, train_synapses or the Net methods changes a layer's
\* prev_layer or next_layer or the order of the layers.
C5_WiringFixed ==
    /\ []WiringOk
    /\ [][/\ DOMAIN layers' = DOMAIN layers
          /\ \A k \in DOMAIN layers :
                /\ layers'[k].prev_layer = layers[k].prev_layer
                /\ layers'[k].next_layer = layers[k].next_layer
                /\ layers'[k].layer_settings.layer_id
                      = layers[k].layer_settings.layer_id]_vars

\* C5 witness: a three-layer network, wired, after process_data_online has
\* processed timesteps and returned
C5_Witness ==
    /\ op = "returned"
    /\ processed >= 1
    /\ NumberOfLayers = 3
    /\ layers[1].prev_layer = 0
    /\ layers[1].next_layer = 2
    /\ layers[0].prev_layer = NoLayer
    /\ layers[2].next_layer = NoLayer

\* C6: a layer's mem_rec never holds more than MAX_RETAINED_MEMS = 2 entries;
\* each forward appends the new membrane at the end and evicts the oldest
\* entry, so that mem_rec is the previous newest entry followed by the new
\* membrane; no other step changes mem_rec.
C6_MemRecFifo ==
    /\ [](\A k \in DOMAIN layers : Len(layers[k].mem_rec) <= MAX_RETAINED_MEMS)
    /\ [][\A k \in DOMAIN layers :
            IF pc = "forward" /\ k = i
            THEN layers'[k].mem_rec
                    = <<layers[k].mem_rec[Len(layers[k].mem_rec)], layers'[k].mem>>
            ELSE layers'[k].mem_rec = layers[k].mem_rec]_vars

\* C6 witness: a layer whose forward has run at least twice, holding two
\* different non-zero membranes, the newest last
C6_Witness ==
    \E k \in DOMAIN layers :
        LET ls == layers[k].layer_settings
            zero == Zeros2(ls.batch_size, ls.size)
        IN  /\ steps >= 2
            /\ Len(layers[k].mem_rec) = 2
            /\ layers[k].mem_rec[1] /= zero
            /\ layers[k].mem_rec[2] /= zero
            /\ layers[k].mem_rec[1] /= layers[k].mem_rec[2]
            /\ layers[k].mem_rec[2] = layers[k].mem

\* C7 as stated: forward of layer k leaves forward_weights as they were and
\* changes nothing but layer k's current membrane and membrane history.
C7_ForwardChangesOnlyMem ==
    [][pc = "forward" =>
          \A k \in DOMAIN layers :
              layers'[k] = IF k = i
                           THEN [layers[k] EXCEPT !.mem = layers'[k].mem,
                                                  !.mem_rec = layers'[k].mem_rec]
                           ELSE layers[k]]_vars

\* C7 amended: forward of layer k leaves the forward_weights of every layer
\* as they were and changes nothing but layer k's own transient state: its
\* current membrane, its membrane history, and its LIF cell's record of its
\* spikes (the last two spikes, their moving average and variance).
C7_ForwardChangesOnlyTransientState ==
    [][pc = "forward" =>
          /\ \A k \in DOMAIN layers :
                layers'[k].forward_weights = layers[k].forward_weights
          /\ \A k \in DOMAIN layers :
                layers'[k] =
                    IF k = i
                    THEN [layers[k] EXCEPT
                            !.mem = layers'[k].mem,
                            !.mem_rec = layers'[k].mem_rec,
                            !.spike_rec = layers'[k].spike_rec,
                            !.spike_moving_average = layers'[k].spike_moving_average,
                            !.lif_variance_moving_average =
                                layers'[k].lif_variance_moving_average]
                    ELSE layers[k]]_vars

\* C7 witness: forward has just run on a layer with a non-zero weight, after
\* its weights were trained, and has changed the layer's membrane
C7_Witness ==
    /\ pc = "train"
    /\ steps >= 2
    /\ \E j \in DOMAIN layers[i].forward_weights :
          \E c \in DOMAIN layers[i].forward_weights[j] :
              /\ layers[i].forward_weights[j][c] /= 0
              /\ layers[i].forward_weights[j][c]
                    /= NetInit(settings, seed)[i].forward_weights[j][c]
    /\ layers[i].mem_rec[1] /= layers[i].mem_rec[2]

\* C8: for every layer and every (output, input) pair whose sparsity_mask
\* entry is false the forward_weights entry is 0 after every train_synapses
\* call (and in every other state), and the sparsity mask is the one set at
\* construction.
C8_MaskedWeightsZero ==
    LET constructed == NetInit(settings, seed)
    IN  \A k \in DOMAIN layers :
        /\ layers[k].sparsity_mask = constructed[k].sparsity_mask
        /\ \A j \in DOMAIN layers[k].sparsity_mask :
              \A c \in DOMAIN layers[k].sparsity_mask[j] :
                  ~layers[k].sparsity_mask[j][c] => layers[k].forward_weights[j][c] = 0

\* C8 witness: train_synapses has just run on a layer whose plasticity rule
\* moved a weight outside the mask away from zero
C8_Witness ==
    /\ log /= <<>>
    /\ LET e == log[Len(log)]
       IN  /\ e.call = "train_synapses"
           /\ \E j \in DOMAIN e.trained :
                 \E c \in DOMAIN e.trained[j] :
                     /\ ~layers[e.layer].sparsity_mask[j][c]
                     /\ e.trained[j][c] /= 0
                     /\ layers[e.layer].forward_weights[j][c] = 0

\* C9: every layer's excitatory mask has round(percentage_inhibitory / 100 *
\* size) inhibitory entries (the count is a nearest integer: it is within
\* one half of percentage_inhibitory / 100 * size), and the mask is the one
\* made at construction in every later state.
C9_ExcitatoryMask ==
    LET constructed == NetInit(settings, seed)
    IN  \A k \in DOMAIN layers :
        LET ls == layers[k].layer_settings
            inhibitory == Cardinality({j \in DOMAIN layers[k].excitatory_mask_vec :
                                          ~layers[k].excitatory_mask_vec[j]})
        IN  /\ DOMAIN layers[k].excitatory_mask_vec = 1..ls.size
            /\ 2 * Abs(100 * inhibitory - ls.percentage_inhibitory * ls.size) <= 100
            /\ layers[k].excitatory_mask_vec = constructed[k].excitatory_mask_vec

\* C9 witness: process_data_online has processed timesteps and returned, on
\* a network with a layer of one inhibitory and one excitatory unit
C9_Witness ==
    /\ op = "returned"
    /\ processed >= 1
    /\ \E k \in DOMAIN layers :
          /\ layers[k].layer_settings.size = 2
          /\ \E j1, j2 \in 1..2 :
                layers[k].excitatory_mask_vec[j1] /\ ~layers[k].excitatory_mask_vec[j2]

\* other forward_weights a layer could hold: every entry 0, or every entry 2.0
AltWeights(layer) ==
    {[j \in DOMAIN layer.forward_weights |->
         [c \in DOMAIN layer.forward_weights[j] |-> v]] : v \in {0, 2 * Q}}

\* the layers with layer k's forward_weights replaced by w
WithWeights(lys, k, w) == [lys EXCEPT ![k].forward_weights = w]

\* between two timesteps
BetweenTimesteps == op = "idle" /\ pc = "none"

\* C10 as stated: two runs of one timestep from states that differ only in
\* layer k's forward_weights, on the same input, end with the same state of
\* every layer that is not k or a direct neighbour of k.
C10_OnlyNeighboursInfluenced ==
    BetweenTimesteps =>
        \A d \in DataChoices(settings) :
            LET run1 == ProcessTimestep(layers, d)
            IN  \A k \in DOMAIN layers : \A w \in AltWeights(layers[k]) :
                    LET run2 == ProcessTimestep(WithWeights(layers, k, w), d)
                    IN  \A j \in DOMAIN layers :
                            (j < k - 1 \/ j > k + 1) => run1[j] = run2[j]

\* C10 amended: two runs of one timestep from states that differ only in
\* layer k's forward_weights, on the same input, end with the same state of
\* layer k-2 and of every other layer before layer k; the layers after k,
\* direct neighbour or not, are not covered.
C10_EarlierLayersNotInfluenced ==
    BetweenTimesteps =>
        \A d \in DataChoices(settings) :
            LET run1 == ProcessTimestep(layers, d)
            IN  \A k \in DOMAIN layers : \A w \in AltWeights(layers[k]) :
                    LET run2 == ProcessTimestep(WithWeights(layers, k, w), d)
                    IN  \A j \in DOMAIN layers : j < k => run1[j] = run2[j]

\* C10 witness: a three-layer network between two timesteps where other
\* weights of layer 2 change what the timestep makes of layer 2
C10_Witness ==
    /\ BetweenTimesteps
    /\ steps >= 1
    /\ NumberOfLayers = 3
    /\ \E w \in AltWeights(layers[2]) : \E d \in DataChoices(settings) :
          LET run1 == ProcessTimestep(layers, d)
              run2 == ProcessTimestep(WithWeights(layers, 2, w), d)
          IN  /\ run1[2].mem /= run2[2].mem
              /\ run1[0] = run2[0]

\* a (batch, size) array with every entry raised by 1.0
Shift2(a) == [b \in DOMAIN a |-> [c \in DOMAIN a[b] |-> a[b][c] + Q]]

\* a (batch, j, i) array with every entry raised by 1.0
Shift3(a) == [b \in DOMAIN a |-> Shift2(a[b])]

\* a filter with other contents
ShiftFilter2(f) == [rise |-> Shift2(f.rise), fall |-> Shift2(f.fall)]

ShiftFilter3(f) == [rise |-> Shift3(f.rise), fall |-> Shift3(f.fall)]

\* a layer that differs in everything its successor does not read: its
\* weights and bias, its filters, its data trackers and the older entry of
\* its membrane history
OtherUnread(layer) ==
    [layer EXCEPT
        !.forward_weights = Shift2(@),
        !.forward_bias = [j \in DOMAIN @ |-> @[j] + Q],
        !.mem_rec = <<Shift2(@[1]), @[2]>>,
        !.alpha_filter_first_term = ShiftFilter3(@),
        !.epsilon_filter_second_term = ShiftFilter3(@),
        !.alpha_filter_second_term = ShiftFilter2(@),
        !.data_spike_rec = <<Shift2(@[1]), Shift2(@[2])>>,
        !.data_spike_moving_average = Shift2(@),
        !.variance_moving_average = Shift2(@)]

\* a layer that differs in all of its weights, membranes, trackers and filters
OtherState(layer) ==
    [OtherUnread(layer) EXCEPT
        !.mem = Shift2(@),
        !.mem_rec = <<Shift2(@[1]), Shift2(@[2])>>,
        !.spike_rec = <<Shift2(@[1]), Shift2(@[2])>>,
        !.spike_moving_average = Shift2(@),
        !.lif_variance_moving_average = Shift2(@)]

\* the layers as layer k may not tell them apart from lys: layer k itself is
\* the same, its predecessor differs in what layer k does not read, every
\* other layer differs in all of its state
OthersChanged(lys, k) ==
    [j \in DOMAIN lys |->
        IF j = k THEN lys[j]
        ELSE IF j = k - 1 THEN OtherUnread(lys[j])
        ELSE OtherState(lys[j])]

\* what forward and the plasticity update on layer i make of layer i does
\* not depend on the other layers, but for what is read of the predecessor
ReadsOwnAndPredecessor ==
    /\ pc = "forward" =>
          LET arg == ForwardArgument(i, data)
              out1 == Forward(layers, i, arg)
              out2 == Forward(OthersChanged(layers, i), i, arg)
          IN  out1.layers[i] = out2.layers[i] /\ out1.spk = out2.spk
    /\ pc = "train" =>
          TrainSynapses(layers, i, spk, data)[i]
              = TrainSynapses(OthersChanged(layers, i), i, spk, data)[i]

\* C11: forward and the plasticity update on layer k read only layer k's own
\* state and its predecessor's most recent spike, membrane and tracker
\* values (changing anything else of any other layer does not change their
\* result), and they leave every other layer as it was.
C11_BackReferencesReadOnly ==
    /\ []ReadsOwnAndPredecessor
    /\ [][(pc = "forward" \/ pc = "train") =>
             \A j \in DOMAIN layers : j /= i => (layers'[j] = layers[j])]_vars

\* C11 witness: the plasticity update has just changed the weights of the
\* middle layer of a three-layer network, whose predecessor has spiked
C11_Witness ==
    /\ NumberOfLayers = 3
    /\ log /= <<>>
    /\ Last(log).call = "train_synapses"
    /\ Last(log).layer = 1
    /\ \E b \in DOMAIN Last(layers[0].spike_rec) :
          \E c \in DOMAIN Last(layers[0].spike_rec)[b] :
              Last(layers[0].spike_rec)[b][c] /= 0
    /\ \E e \in 1..Len(log) :
          /\ log[e].call = "forward"
          /\ log[e].layer = 1
          /\ log[e].trained /= layers[1].forward_weights

RECURSIVE Replay(_, _, _)
\* a second, independent run: the first n inputs of ins fed, one timestep
\* each, to the layers lys
Replay(lys, ins, n) ==
    IF n = 0 THEN lys
    ELSE ProcessTimestep(Replay(lys, ins, n - 1), ins[n])

\* at the end of a timestep
AtTimestepEnd == pc = "none" \/ pc = "loop"

RECURSIVE SumOver(_, _)
\* f[1] + ... + f[n]
SumOver(f, n) == IF n = 0 THEN 0 ELSE SumOver(f, n - 1) + f[n]

\* the batch mean of term1 * term2 + term3 at (output j, input c), term2
\* being given per (batch, input) and term3 per (batch, output)
BatchMean(term1, term2, term3, j, c, n) ==
    SumOver([b \in 1..n |-> Mul(term1[b][j][c], term2[b][c]) + term3[b][j]], n) \div n

\* third terms a finer resolution would tell from zero
ThirdTermChoices(ls) == [1..ls.batch_size -> [1..ls.size -> {0, 3}]]

\* the plasticity update has just run on layer Last(log).layer
JustTrained == log /= <<>> /\ Last(log).call = "train_synapses"

\* C14: the plasticity update adds to each weight (j, i) the batch mean of
\* term1 * term2 + term3, term2 constant along the output index and term3
\* along the input index: the weights the rule leaves are the weights before
\* it plus that mean (the layer then keeps them inside its sparsity mask),
\* and the same holds of the sum the rule forms for any other third term.
C14_BatchMeanAdded ==
    JustTrained =>
        LET k == Last(log).layer
            layer == layers[k]
            ls == layer.layer_settings
            n == ls.batch_size
            before == log[Len(log) - 1].trained
            after == Last(log).trained
            term1 == FirstTerm(ls, layer.alpha_filter_first_term.fall)
            term2 == layer.alpha_filter_second_term.fall
            term3 == ThirdTerm(ls, Last(log).spk)
        IN  /\ log[Len(log) - 1].call = "forward"
            /\ log[Len(log) - 1].layer = k
            /\ \A j \in DOMAIN before : \A c \in DOMAIN before[j] :
                  /\ after[j][c]
                        = before[j][c] + BatchMean(term1, term2, term3, j, c, n)
                  /\ layer.sparsity_mask[j][c] =>
                        layer.forward_weights[j][c] = after[j][c]
                  /\ \A third \in ThirdTermChoices(ls) :
                        DwDt(ls, [size |-> Len(before[j])], term1, term2, third)[j][c]
                            = BatchMean(term1, term2, third, j, c, n)

\* C14 witness: the update has just changed a weight of a layer of two units
\* by a mean in which the two batch elements count differently
C14_Witness ==
    /\ JustTrained
    /\ LET k == Last(log).layer
           layer == layers[k]
           ls == layer.layer_settings
           term1 == FirstTerm(ls, layer.alpha_filter_first_term.fall)
           term2 == layer.alpha_filter_second_term.fall
       IN  /\ ls.size = 2
           /\ \E j \in 1..ls.size : \E c \in DOMAIN term2[1] :
                 /\ Last(log).trained[j][c] /= log[Len(log) - 1].trained[j][c]
                 /\ Mul(term1[1][j][c], term2[1][c]) /= Mul(term1[2][j][c], term2[2][c])

\* the denominators the plasticity update of layer k forms, on input d
UpdateDenominators(lys, k, d) ==
    LET layer == IF lys[k].prev_layer = NoLayer
                 THEN ApplyDataTrackers(lys[k], d) ELSE lys[k]
        variance == Presynaptic(lys, layer).variance_moving_average
    IN  {HebbianDenominator(variance[b][c]) :
            b \in DOMAIN variance, c \in DOMAIN variance[1]}

Thresholded(raw) ==
    [b \in DOMAIN raw |-> [c \in DOMAIN raw[b] |->
        IF raw[b][c] > Q \div 2 THEN Q ELSE 0]]

\* what reaches layer 0 of a raw input array under the settings
ExpectedInput(raw) ==
    IF settings.encode_spike_trains THEN Thresholded(raw) ELSE raw

\* C16: during process_data_online, with encode_spike_trains set the whole
\* mini-batch is thresholded before its first timestep is handed to the
\* layers, and every input of layer 0's forward is the thresholded raw input
\* of its timestep (1 where the raw value is above 0.5, else 0); with the
\* flag unset the raw input reaches layer 0 as it is.
C16_InputThresholded ==
    op = "online" =>
        /\ DOMAIN batch = DOMAIN loaded
        /\ \A t \in DOMAIN batch : batch[t] = ExpectedInput(loaded[t])
        /\ (pc = "train" \/ pc = "forward") =>
              /\ data = ExpectedInput(loaded[timestep + 1])
              /\ \A e \in DOMAIN log :
                    (log[e].call = "forward" /\ log[e].layer = 0) =>
                        /\ log[e].input = ExpectedInput(loaded[timestep + 1])
                        /\ settings.encode_spike_trains =>
                              \A b \in DOMAIN log[e].input :
                                  \A c \in DOMAIN log[e].input[b] :
                                      log[e].input[b][c] \in {0, Q}

\* C16 witness: with the flag set, layer 0's forward has run on the second
\* timestep of a mini-batch whose raw input there has a value of exactly 0.5,
\* a value below and a value above it
C16_Witness ==
    /\ op = "online"
    /\ settings.encode_spike_trains
    /\ pc = "train"
    /\ i = 0
    /\ timestep = 1
    /\ \E b1, b2, b3 \in DOMAIN loaded[2] : \E c1, c2, c3 \in DOMAIN loaded[2][1] :
          /\ loaded[2][b1][c1] = Q \div 2
          /\ loaded[2][b2][c2] > Q \div 2
          /\ loaded[2][b3][c3] > 0 /\ loaded[2][b3][c3] < Q \div 2
    /\ Last(log).input = data

\* C17: layer state is continuous: a step of the network that is not a
\* layer's forward or plasticity update (a call of either method, the head of
\* the timestep loop, the return) changes nothing of any layer, so that a
\* timestep starts from the state the timestep before it ended in.
C17_StateContinuous ==
    [][(pc = "none" \/ pc = "loop") => layers' = layers]_vars

\* C17 witness: the second timestep of a mini-batch is starting, after a
\* timestep of an earlier call, from layers whose membrane, membrane history,
\* trackers and filters are no longer zero
C17_Witness ==
    /\ op = "online"
    /\ pc = "forward"
    /\ i = 0
    /\ log = <<>>
    /\ timestep = 1
    /\ steps >= 3
    /\ \E k \in DOMAIN layers :
          LET ls == layers[k].layer_settings
              zero == Zeros2(ls.batch_size, ls.size)
          IN  /\ layers[k].mem /= zero
              /\ layers[k].mem_rec /= <<zero, zero>>
              /\ layers[k].spike_moving_average /= zero
              /\ layers[k].epsilon_filter_second_term
                    /= NewFilter(Zeros3(ls.batch_size, ls.size, ls.prev_size))

\* C18: from construction on, every layer's mem_rec holds exactly 2 arrays
\* of shape batch_size x size, both zero until the layer's first forward, so
\* that the mem_rec[-1] of the predecessor that the plasticity update reads
\* is always there.
C18_MemRecTwoEntries ==
    /\ \A k \in DOMAIN layers :
          LET ls == layers[k].layer_settings
          IN  /\ Len(layers[k].mem_rec) = 2
              /\ \A e \in 1..2 :
                    /\ DOMAIN layers[k].mem_rec[e] = 1..ls.batch_size
                    /\ \A b \in 1..ls.batch_size :
                          DOMAIN layers[k].mem_rec[e][b] = 1..ls.size
              /\ steps = 0 =>
                    layers[k].mem_rec = <<Zeros2(ls.batch_size, ls.size),
                                          Zeros2(ls.batch_size, ls.size)>>
    /\ (pc = "train" /\ i > 0) =>
          /\ 2 \in DOMAIN layers[i - 1].mem_rec
          /\ PresynapticOfLayer(layers[i - 1]).mem = layers[i - 1].mem_rec[2]

\* C18 witness: in the first timestep of a run the plasticity update of a
\* layer is about to read its predecessor's mem_rec[-1], the predecessor
\* having run forward once: its history is one zero array and one membrane
C18_Witness ==
    /\ pc = "train"
    /\ i > 0
    /\ steps = 1
    /\ LET prev == layers[i - 1]
           zero == Zeros2(prev.layer_settings.batch_size, prev.layer_settings.size)
       IN  /\ Len(prev.mem_rec) = 2
           /\ prev.mem_rec[1] = zero
           /\ prev.mem_rec[2] /= zero

(***************************************************************************)
(* Construction, as bench_specific_seed does it: Settings(...) from the     *)
(* caller's arguments, the training CSV read, the SequentialDataset made    *)
(* of it, then Net(settings), which makes the LayerSettings and the layers. *)
(***************************************************************************)
\* arguments a caller may give to Settings, valid or not
ConfigChoices ==
    [layer_sizes : {<<1>>, <<2, 1>>},
     data_size : {1},
     batch_size : {2},
     learning_rate : {-Q, 0, Q},
     epochs : {1},
     encode_spike_trains : {FALSE},
     percentage_inhibitory : {-10, 0, 30, 100, 150},
     layer_sparsity : LayerSparsityChoices,
     decay_beta : {(9 * Q) \div 10},
     tau_mean : {0, 2},
     tau_var : {2},
     tau_rise_alpha : {-1, 1},
     tau_fall_alpha : {2},
     tau_rise_epsilon : {1},
     tau_fall_epsilon : {2}]

\* the training CSV before the run: missing, or holding 1 or 2 samples of 1
\* to NumDatapoints datapoints each
CsvChoices ==
    {Absent} \cup {Present(n, d) : n \in {1, 2}, d \in 1..NumDatapoints}

\* generate_sequential_dataset(num_samples, num_datapoints): a table of
\* num_samples samples of num_datapoints datapoints each
generate_sequential_dataset(num_samples, num_datapoints) ==
    Present(num_samples, num_datapoints)

\* SequentialDataset.__init__(dataset_type, dataframe_tmp, num_timesteps,
\* planned_batch_size): whether it raises, the dataframe it keeps and the
\* file it leaves. dataframe_tmp.groupby raises on None; a table whose
\* number of rows is no multiple of the batch size, or whose sample 0 has
\* another number of datapoints, is regenerated and written to the file.
SequentialDataset(dataframe_tmp, file, n_timesteps, planned_batch_size) ==
    IF ~dataframe_tmp.present
    THEN [raised |-> TRUE, dataframe |-> Absent, file |-> file]
    ELSE IF \/ (dataframe_tmp.samples * dataframe_tmp.datapoints)
                   % planned_batch_size /= 0
            \/ dataframe_tmp.datapoints /= n_timesteps
         THEN LET made == generate_sequential_dataset(planned_batch_size,
                                                     n_timesteps)
              IN  [raised |-> FALSE, dataframe |-> made, file |-> made]
         ELSE [raised |-> FALSE, dataframe |-> dataframe_tmp, file |-> file]

\* before construction: the arguments are chosen, no object is made
InitConfig ==
    /\ settings \in ConfigChoices
    /\ seed \in Seeds
    /\ layers = <<>>
    /\ op = "args"
    /\ pc = "none"
    /\ i = 0
    /\ data = NoData
    /\ spk = NoSpike
    /\ num_batches = 0
    /\ num_timesteps = 0
    /\ loaded = <<>>
    /\ batch = <<>>
    /\ timestep = 0
    /\ processed = 0
    /\ steps = 0
    /\ log = <<>>
    /\ inputs = <<>>
    /\ csv_file \in CsvChoices
    /\ train_dataframe = Absent
    /\ dataset = Absent

\* Settings.__init__: every argument is stored as given
NewSettings ==
    /\ op = "args"
    /\ op' = "settings"
    /\ UNCHANGED benchVars
    /\ UNCHANGED <<settings, seed, layers, pc, i, data, spk, num_batches,
                   num_timesteps, loaded, batch, timestep, processed, steps, log,
                   inputs>>

\* try: train_dataframe = pd.read_csv(TRAIN_DATA_PATH)
\* except FileNotFoundError: train_dataframe = None
ReadCsv ==
    /\ op = "settings"
    /\ train_dataframe' = IF csv_file.present THEN csv_file ELSE Absent
    /\ op' = "frame"
    /\ UNCHANGED <<csv_file, dataset>>
    /\ UNCHANGED <<settings, seed, layers, pc, i, data, spk, num_batches,
                   num_timesteps, loaded, batch, timestep, processed, steps, log,
                   inputs>>

\* train_sequential_dataset = SequentialDataset(DatasetType.TRAIN,
\* train_dataframe, num_timesteps, planned_batch_size=settings.batch_size):
\* an exception it raises ends bench_specific_seed
NewSequentialDataset ==
    /\ op = "frame"
    /\ LET made == SequentialDataset(train_dataframe, csv_file, NumDatapoints,
                                     settings.batch_size)
       IN  /\ op' = IF made.raised THEN "failed" ELSE "dataset"
           /\ dataset' = made.dataframe
           /\ csv_file' = made.file
    /\ UNCHANGED train_dataframe
    /\ UNCHANGED <<settings, seed, layers, pc, i, data, spk, num_batches,
                   num_timesteps, loaded, batch, timestep, processed, steps, log,
                   inputs>>

\* Net.__init__: the LayerSettings are made from the settings as given, then
\* the layers, their wiring and their masks
NewNet ==
    /\ op = "dataset"
    /\ layers' = NetInit(settings, seed)
    /\ op' = "idle"
    /\ UNCHANGED benchVars
    /\ UNCHANGED <<settings, seed, pc, i, data, spk, num_batches,
                   num_timesteps, loaded, batch, timestep, processed, steps, log,
                   inputs>>

NextConfig ==
    \/ NewSettings
    \/ ReadCsv
    \/ NewSequentialDataset
    \/ NewNet

SpecConfig == InitConfig /\ [][NextConfig]_vars

\* percentage_inhibitory is in [0, 100] and the learning rate and every tau
\* are above 0
ValidConfig(s) ==
    /\ s.percentage_inhibitory >= 0
    /\ s.percentage_inhibitory <= 100
    /\ s.learning_rate > 0
    /\ s.tau_mean > 0
    /\ s.tau_var > 0
    /\ s.tau_rise_alpha > 0
    /\ s.tau_fall_alpha > 0
    /\ s.tau_rise_epsilon > 0
    /\ s.tau_fall_epsilon > 0

\* C13 as stated: no Settings, LayerSettings or Net is left constructed with
\* percentage_inhibitory outside [0, 100] or with a learning rate or a tau
\* that is not above 0.
C13_InvalidConfigRejected ==
    /\ op = "settings" => ValidConfig(settings)
    /\ op = "idle" =>
          /\ ValidConfig(settings)
          /\ \A k \in DOMAIN layers : ValidConfig(layers[k].layer_settings)

\* C19 as stated: when the training CSV is missing (read_csv gave None),
\* bench_specific_seed does not fail, and once the SequentialDataset is made
\* it holds planned_batch_size samples of num_timesteps datapoints each.
C19_MissingCsvHandled ==
    (op \in {"frame", "failed", "dataset", "idle"} /\ ~train_dataframe.present) =>
        /\ op /= "failed"
        /\ op \in {"dataset", "idle"} =>
              dataset = Present(settings.batch_size, NumDatapoints)

====
